---- MODULE Spec2Model ----
(***************************************************************************)
(* A model of the crabbux ledger (src/src/accounts.rs): the account ->     *)
(* balance map of Accounts and its operations deposit, withdraw and send,  *)
(* with u64 checked arithmetic; and of the shell around it                 *)
(* (src/src/main.rs): main's loop, handle_input and the transaction log.   *)
(*                                                                         *)
(* Spec is the ledger called directly; SpecShell is the ledger driven by   *)
(* main's loop, where result holds what handle_input returned.             *)
(***************************************************************************)
EXTENDS Integers, FiniteSets, Sequences, TLC

VARIABLES accounts, prev, call, result, path, tx_log, pc, reported

vars == <<accounts, prev, call, result, path, tx_log, pc, reported>>

(* ----------------------------- bounds --------------------------------- *)

\* Width in bits of the balance integer (u64 in the source, scaled down).
WIDTH == 2

\* u64::MAX for the modelled width.
MAX == 2 ^ WIDTH - 1

\* The account identifiers the caller may name.
Account == {"alice", "bob", "ghost"}

\* Every value of the amount type.
Amount == 0 .. MAX

\* Most records the shell's log may hold before the model stops prompting.
MaxLog == 5

\* The account names typed at the shell's prompts.
ShellAccount == {"alice", "bob"}

\* The amounts typed at the shell's prompts: the ends of the range and 1.
ShellAmount == {0, 1, MAX}

(* ------------------------ Option and Result --------------------------- *)

None == [is_some |-> FALSE]

Some(v) == [is_some |-> TRUE, value |-> v]

Ok(v) == [is_ok |-> TRUE, value |-> v]

Err(e) == [is_ok |-> FALSE, error |-> e]

(* ------------------------- errors.rs, tx.rs --------------------------- *)

NotFound(account) == [kind |-> "NotFound", account |-> account]

UnderFunded(account, amount) ==
    [kind |-> "UnderFunded", account |-> account, amount |-> amount]

OverFunded(account, amount) ==
    [kind |-> "OverFunded", account |-> account, amount |-> amount]

TxDeposit(account, amount) ==
    [kind |-> "Deposit", account |-> account, amount |-> amount]

TxWithdraw(account, amount) ==
    [kind |-> "Withdraw", account |-> account, amount |-> amount]

(* --------------------------- u64 arithmetic --------------------------- *)

\* Mutant: addition that keeps the mathematical sum, overflow unchecked.
unchecked_add(x, y) == Some(x + y)

\* Mutant: overflow detected one too early (>= instead of >).
checked_add_off_by_one(x, y) == IF x + y >= MAX THEN None ELSE Some(x + y)

\* u64::checked_add: None when the sum exceeds u64::MAX.
checked_add(x, y) == IF x + y > MAX THEN None ELSE Some(x + y)

\* Mutant: subtraction that refuses to drain the balance (> instead of >=).
checked_sub_strict(x, y) == IF x - y <= 0 THEN None ELSE Some(x - y)

\* u64::checked_sub: None when the difference is below zero.
checked_sub(x, y) == IF x - y < 0 THEN None ELSE Some(x - y)

(* ------------------------------ HashMap ------------------------------- *)

\* HashMap::default(): no entries.
EmptyMap == [k \in {} |-> 0]

\* HashMap::get / get_mut: the entry of key k, if any.
get(m, k) == IF k \in DOMAIN m THEN Some(m[k]) ELSE None

\* Mutant: the write goes to every entry of the map.
insert_all(m, k, v) == [x \in DOMAIN m \cup {k} |-> v]

\* HashMap::insert, and the write through a get_mut reference.
insert(m, k, v) == [x \in DOMAIN m \cup {k} |-> IF x = k THEN v ELSE m[x]]

(* ----------------------------- Accounts ------------------------------- *)

\* What a call leaves behind: the map and the value returned.
Outcome(m, r) == [accounts |-> m, result |-> r]

\* Mutant: deposit into a missing account fails instead of creating it.
deposit_no_create(m, signer, amount) ==
    LET account == get(m, signer) IN
    IF account.is_some
    THEN LET r == checked_add(account.value, amount) IN
         IF r.is_some
         THEN Outcome(insert(m, signer, r.value), Ok(TxDeposit(signer, amount)))
         ELSE Outcome(m, Err(OverFunded(signer, amount)))
    ELSE Outcome(m, Err(NotFound(signer)))

\* Mutant: the overflow error reports the existing balance, not the amount.
deposit_reports_balance(m, signer, amount) ==
    LET account == get(m, signer) IN
    IF account.is_some
    THEN LET r == checked_add(account.value, amount) IN
         IF r.is_some
         THEN Outcome(insert(m, signer, r.value), Ok(TxDeposit(signer, amount)))
         ELSE Outcome(m, Err(OverFunded(signer, account.value)))
    ELSE Outcome(insert(m, signer, amount), Ok(TxDeposit(signer, amount)))

\* Mutant: the overflow is reported with the error of the other operation.
deposit_overflow_underfunded(m, signer, amount) ==
    LET account == get(m, signer) IN
    IF account.is_some
    THEN LET r == checked_add(account.value, amount) IN
         IF r.is_some
         THEN Outcome(insert(m, signer, r.value), Ok(TxDeposit(signer, amount)))
         ELSE Outcome(m, Err(UnderFunded(signer, amount)))
    ELSE Outcome(insert(m, signer, amount), Ok(TxDeposit(signer, amount)))

\* Accounts::deposit
deposit(m, signer, amount) ==
    LET account == get(m, signer) IN
    IF account.is_some
    THEN LET r == checked_add(account.value, amount) IN
         IF r.is_some
         THEN Outcome(insert(m, signer, r.value), Ok(TxDeposit(signer, amount)))
         ELSE Outcome(m, Err(OverFunded(signer, amount)))
    ELSE Outcome(insert(m, signer, amount), Ok(TxDeposit(signer, amount)))

\* Mutant: withdraw from a missing account opens it with balance 0.
withdraw_creates(m, signer, amount) ==
    LET bal == get(m, signer) IN
    IF bal.is_some
    THEN LET r == checked_sub(bal.value, amount) IN
         IF r.is_some
         THEN Outcome(insert(m, signer, r.value), Ok(TxWithdraw(signer, amount)))
         ELSE Outcome(m, Err(UnderFunded(signer, amount)))
    ELSE Outcome(insert(m, signer, 0), Err(NotFound(signer)))

\* Mutant: the underfunded error reports the balance, not the amount.
withdraw_reports_balance(m, signer, amount) ==
    LET bal == get(m, signer) IN
    IF bal.is_some
    THEN LET r == checked_sub(bal.value, amount) IN
         IF r.is_some
         THEN Outcome(insert(m, signer, r.value), Ok(TxWithdraw(signer, amount)))
         ELSE Outcome(m, Err(UnderFunded(signer, bal.value)))
    ELSE Outcome(m, Err(NotFound(signer)))

\* Mutant: a missing account is treated as an account with balance 0.
withdraw_missing_as_zero(m, signer, amount) ==
    LET bal == get(m, signer)
        b == IF bal.is_some THEN bal.value ELSE 0
        r == checked_sub(b, amount) IN
    IF r.is_some
    THEN Outcome(insert(m, signer, r.value), Ok(TxWithdraw(signer, amount)))
    ELSE Outcome(m, Err(UnderFunded(signer, amount)))

\* Mutant: an account drained to 0 loses its entry.
withdraw_removes_empty(m, signer, amount) ==
    LET bal == get(m, signer) IN
    IF bal.is_some
    THEN LET r == checked_sub(bal.value, amount) IN
         IF r.is_some
         THEN Outcome(IF r.value = 0
                      THEN [x \in DOMAIN m \ {signer} |-> m[x]]
                      ELSE insert(m, signer, r.value),
                      Ok(TxWithdraw(signer, amount)))
         ELSE Outcome(m, Err(UnderFunded(signer, amount)))
    ELSE Outcome(m, Err(NotFound(signer)))

\* Accounts::withdraw
withdraw(m, signer, amount) ==
    LET bal == get(m, signer) IN
    IF bal.is_some
    THEN LET r == checked_sub(bal.value, amount) IN
         IF r.is_some
         THEN Outcome(insert(m, signer, r.value), Ok(TxWithdraw(signer, amount)))
         ELSE Outcome(m, Err(UnderFunded(signer, amount)))
    ELSE Outcome(m, Err(NotFound(signer)))

\* The value of a panicking unwrap: the call does not return.
Panic == [is_ok |-> FALSE, error |-> [kind |-> "panic"]]

\* What send leaves behind, with the arm of its code that returned.
SendOutcome(m, r, arm) == [accounts |-> m, result |-> r, path |-> arm]

\* Mutant: early-return composition, the sender's debit is not undone.
send_no_rollback(m, sender, recipient, amount) ==
    LET lookup == get(m, sender) IN
    IF ~lookup.is_some
    THEN SendOutcome(m, Err(NotFound(sender)), "not_found")
    ELSE LET w == withdraw(m, sender, amount) IN
         IF ~w.result.is_ok
         THEN SendOutcome(w.accounts, Err(w.result.error), "withdraw_err")
         ELSE LET d == deposit(w.accounts, recipient, amount) IN
              IF d.result.is_ok
              THEN SendOutcome(d.accounts,
                               Ok(<<w.result.value, d.result.value>>), "ok")
              ELSE SendOutcome(d.accounts, Err(d.result.error), "deposit_err")

\* Mutant: the records are returned deposit first.
send_swapped_records(m, sender, recipient, amount) ==
    LET lookup == get(m, sender) IN
    IF ~lookup.is_some
    THEN SendOutcome(m, Err(NotFound(sender)), "not_found")
    ELSE LET sender_previous_balance == lookup.value
             w == withdraw(m, sender, amount) IN
         IF ~w.result.is_ok
         THEN SendOutcome(w.accounts, Err(w.result.error), "withdraw_err")
         ELSE LET d == deposit(w.accounts, recipient, amount) IN
              IF d.result.is_ok
              THEN SendOutcome(d.accounts,
                               Ok(<<d.result.value, w.result.value>>), "ok")
              ELSE SendOutcome(insert(d.accounts, sender,
                                      sender_previous_balance),
                               Err(d.result.error), "rollback")

\* Mutant: no sender lookup, the deposit runs whatever the withdraw returned.
send_no_lookup(m, sender, recipient, amount) ==
    LET w == withdraw(m, sender, amount)
        d == deposit(w.accounts, recipient, amount) IN
    IF ~w.result.is_ok
    THEN SendOutcome(d.accounts, Err(w.result.error), "withdraw_err")
    ELSE IF d.result.is_ok
         THEN SendOutcome(d.accounts,
                          Ok(<<w.result.value, d.result.value>>), "ok")
         ELSE SendOutcome(insert(d.accounts, sender, m[sender]),
                          Err(d.result.error), "rollback")

\* Mutant: the deposit is attempted before the withdraw.
send_deposit_first(m, sender, recipient, amount) ==
    LET lookup == get(m, sender) IN
    IF ~lookup.is_some
    THEN SendOutcome(m, Err(NotFound(sender)), "not_found")
    ELSE LET d == deposit(m, recipient, amount) IN
         IF ~d.result.is_ok
         THEN SendOutcome(d.accounts, Err(d.result.error), "rollback")
         ELSE LET w == withdraw(d.accounts, sender, amount) IN
              IF w.result.is_ok
              THEN SendOutcome(w.accounts,
                               Ok(<<w.result.value, d.result.value>>), "ok")
              ELSE SendOutcome(m, Err(w.result.error), "withdraw_err")

\* Mutant: the recipient must already have an entry.
send_requires_recipient(m, sender, recipient, amount) ==
    LET lookup == get(m, sender) IN
    IF ~lookup.is_some
    THEN SendOutcome(m, Err(NotFound(sender)), "not_found")
    ELSE IF ~get(m, recipient).is_some
    THEN SendOutcome(m, Err(NotFound(recipient)), "not_found")
    ELSE LET sender_previous_balance == lookup.value
             w == withdraw(m, sender, amount) IN
         IF ~w.result.is_ok
         THEN SendOutcome(w.accounts, Err(w.result.error), "withdraw_err")
         ELSE LET d == deposit(w.accounts, recipient, amount) IN
              IF d.result.is_ok
              THEN SendOutcome(d.accounts,
                               Ok(<<w.result.value, d.result.value>>), "ok")
              ELSE SendOutcome(insert(d.accounts, sender,
                                      sender_previous_balance),
                               Err(d.result.error), "rollback")

\* Mutant: the snapshot of the sender is taken after the withdraw.
send_late_snapshot(m, sender, recipient, amount) ==
    LET lookup == get(m, sender) IN
    IF ~lookup.is_some
    THEN SendOutcome(m, Err(NotFound(sender)), "not_found")
    ELSE LET w == withdraw(m, sender, amount) IN
         IF ~w.result.is_ok
         THEN SendOutcome(w.accounts, Err(w.result.error), "withdraw_err")
         ELSE LET sender_previous_balance == w.accounts[sender]
                  d == deposit(w.accounts, recipient, amount) IN
              IF d.result.is_ok
              THEN SendOutcome(d.accounts,
                               Ok(<<w.result.value, d.result.value>>), "ok")
              ELSE SendOutcome(insert(d.accounts, sender,
                                      sender_previous_balance),
                               Err(d.result.error), "rollback")

\* Accounts::send
send(m, sender, recipient, amount) ==
    LET lookup == get(m, sender) IN
    IF ~lookup.is_some
    THEN SendOutcome(m, Err(NotFound(sender)), "not_found")
    ELSE LET sender_previous_balance == lookup.value
             w == withdraw(m, sender, amount) IN
         IF ~w.result.is_ok
         THEN SendOutcome(w.accounts, Err(w.result.error), "withdraw_err")
         ELSE LET d == deposit(w.accounts, recipient, amount) IN
              IF d.result.is_ok
              THEN SendOutcome(d.accounts,
                               Ok(<<w.result.value, d.result.value>>), "ok")
              ELSE IF d.result.error.kind = "OverFunded"
                   THEN IF sender \in DOMAIN d.accounts
                        THEN SendOutcome(insert(d.accounts, sender,
                                                sender_previous_balance),
                                         Err(OverFunded(d.result.error.account,
                                                        d.result.error.amount)),
                                         "rollback")
                        ELSE SendOutcome(d.accounts, Panic, "unwrap_panic")
                   ELSE SendOutcome(d.accounts, Err(d.result.error),
                                    "deposit_err")

(* --------------------------- state machine ---------------------------- *)

\* Accounts::new, before any call.
Init ==
    /\ accounts = EmptyMap
    /\ prev = EmptyMap
    /\ call = [op |-> "new"]
    /\ result = Ok(<<>>)
    /\ path = "none"
    /\ tx_log = <<>>
    /\ pc = "loop"
    /\ reported = None

\* A call of deposit(signer, amount).
Deposit ==
    \E signer \in Account, amount \in Amount :
        LET o == deposit(accounts, signer, amount) IN
        /\ accounts' = o.accounts
        /\ result' = o.result
        /\ prev' = accounts
        /\ call' = [op |-> "deposit", signer |-> signer, amount |-> amount]
        /\ path' = "none"
        /\ UNCHANGED <<tx_log, pc, reported>>

\* A call of withdraw(signer, amount).
Withdraw ==
    \E signer \in Account, amount \in Amount :
        LET o == withdraw(accounts, signer, amount) IN
        /\ accounts' = o.accounts
        /\ result' = o.result
        /\ prev' = accounts
        /\ call' = [op |-> "withdraw", signer |-> signer, amount |-> amount]
        /\ path' = "none"
        /\ UNCHANGED <<tx_log, pc, reported>>

\* A call of send(sender, recipient, amount).
Send ==
    \E sender \in Account, recipient \in Account, amount \in Amount :
        LET o == send(accounts, sender, recipient, amount) IN
        /\ accounts' = o.accounts
        /\ result' = o.result
        /\ prev' = accounts
        /\ call' = [op |-> "send", sender |-> sender,
                    recipient |-> recipient, amount |-> amount]
        /\ path' = o.path
        /\ UNCHANGED <<tx_log, pc, reported>>

Next == Deposit \/ Withdraw \/ Send

Spec == Init /\ [][Next]_vars

(* ------------------------- the shell (main.rs) ------------------------ *)

\* The error of str::parse::<u64> on text that is no u64.
ParseIntError == [kind |-> "ParseIntError"]

\* A line typed at the Amount prompt: a decimal numeral with its value, or
\* text that is no numeral.
AmountText ==
    [digits : {TRUE}, value : ShellAmount \cup {MAX + 1}]
        \cup {[digits |-> FALSE, value |-> 0]}

\* str::parse::<u64>: the value of a numeral that fits in u64.
parse(text) ==
    IF text.digits /\ text.value <= MAX THEN Ok(text.value) ELSE Err(ParseIntError)

\* A panic of the shell, with the call that raised it: "println" (stdout
\* cannot be written), "expect" (read_line failed), "unwrap" (parse failed).
PanicAt(site) == [is_ok |-> FALSE, error |-> [kind |-> "panic", at |-> site]]

\* A prompt that was written and answered with a line of readable text.
Typed(text) == [io |-> "ok", text |-> text]

\* A prompt that could not be written to stdout.
PromptFails == [io |-> "println"]

\* A line that could not be read from stdin (a read error, or bytes that are
\* no UTF-8).
ReadFails == [io |-> "read_line"]

\* A line of an iteration that ends before it prompts for it.
NotRead == [io |-> "unread"]

\* read_from_stdin: the trimmed line, or the panic of println! or of expect.
read_from_stdin(line) ==
    IF line.io = "ok"
    THEN Ok(line.text)
    ELSE IF line.io = "println"
    THEN PanicAt("println")
    ELSE PanicAt("expect")

\* InputResult::Quit
Quit == [kind |-> "Quit"]

\* InputResult::Print
PrintResult == [kind |-> "Print"]

\* InputResult::NotSupported
NotSupported == [kind |-> "NotSupported"]

\* InputResult::Confirmed(Vec<Tx>)
Confirmed(txs) == [kind |-> "Confirmed", tx |-> txs]

\* What handle_input leaves behind: the ledger, its return value, the ledger
\* call it made (if any), the arm of send, and whether it panicked.
Handled(m, r, c, arm, panic) ==
    [accounts |-> m, result |-> r, call |-> c, path |-> arm, panicked |-> panic]

\* The lines read by one handle_input that made no ledger call.
NoCall(command) == [op |-> "none", command |-> command]

\* handle_input that panicked before any ledger call.
Panicked(ledger, panic, command) ==
    Handled(ledger, panic, NoCall(command), "none", TRUE)

\* handle_input, arm "deposit"
handle_deposit(ledger, input) ==
    LET account == read_from_stdin(input.account) IN
    IF ~account.is_ok THEN Panicked(ledger, account, "deposit") ELSE
    LET text == read_from_stdin(input.amount) IN
    IF ~text.is_ok THEN Panicked(ledger, text, "deposit") ELSE
    LET amount == parse(text.value) IN
    IF ~amount.is_ok
    THEN Handled(ledger, Err(amount.error), NoCall("deposit"), "none", FALSE)
    ELSE LET o == deposit(ledger, account.value, amount.value)
             c == [op |-> "deposit", signer |-> account.value,
                   amount |-> amount.value] IN
         IF ~o.result.is_ok
         THEN Handled(o.accounts, Err(o.result.error), c, "none", FALSE)
         ELSE Handled(o.accounts, Ok(Confirmed(<<o.result.value>>)), c,
                      "none", FALSE)

\* handle_input, arm "withdraw"
handle_withdraw(ledger, input) ==
    LET account == read_from_stdin(input.account) IN
    IF ~account.is_ok THEN Panicked(ledger, account, "withdraw") ELSE
    LET text == read_from_stdin(input.amount) IN
    IF ~text.is_ok THEN Panicked(ledger, text, "withdraw") ELSE
    LET amount == parse(text.value) IN
    IF ~amount.is_ok
    THEN Handled(ledger, Err(amount.error), NoCall("withdraw"), "none", FALSE)
    ELSE LET o == withdraw(ledger, account.value, amount.value)
             c == [op |-> "withdraw", signer |-> account.value,
                   amount |-> amount.value] IN
         IF ~o.result.is_ok
         THEN Handled(o.accounts, Err(o.result.error), c, "none", FALSE)
         ELSE Handled(o.accounts, Ok(Confirmed(<<o.result.value>>)), c,
                      "none", FALSE)

\* handle_input, arm "send": the amount is parsed (and unwrapped) before the
\* receiver is prompted for.
handle_send(ledger, input) ==
    LET sender == read_from_stdin(input.account) IN
    IF ~sender.is_ok THEN Panicked(ledger, sender, "send") ELSE
    LET text == read_from_stdin(input.amount) IN
    IF ~text.is_ok THEN Panicked(ledger, text, "send") ELSE
    LET amount == parse(text.value) IN
    IF ~amount.is_ok THEN Panicked(ledger, PanicAt("unwrap"), "send") ELSE
    LET receiver == read_from_stdin(input.receiver) IN
    IF ~receiver.is_ok THEN Panicked(ledger, receiver, "send") ELSE
    LET o == send(ledger, sender.value, receiver.value, amount.value)
        c == [op |-> "send", sender |-> sender.value,
              recipient |-> receiver.value, amount |-> amount.value] IN
    IF ~o.result.is_ok
    THEN Handled(o.accounts, Err(o.result.error), c, o.path, o.result = Panic)
    ELSE Handled(o.accounts,
                 Ok(Confirmed(<<o.result.value[1], o.result.value[2]>>)),
                 c, o.path, FALSE)

\* handle_input; input.stdout tells whether its own println! (lines 57, 62)
\* and main's (line 26) can write.
handle_input(ledger, input) ==
    LET command == read_from_stdin(input.command) IN
    IF ~command.is_ok THEN Panicked(ledger, command, "") ELSE
    CASE command.value = "deposit" -> handle_deposit(ledger, input)
      [] command.value = "withdraw" -> handle_withdraw(ledger, input)
      [] command.value = "send" -> handle_send(ledger, input)
      [] command.value = "print" ->
           IF input.stdout
           THEN Handled(ledger, Ok(PrintResult), NoCall("print"), "none", FALSE)
           ELSE Panicked(ledger, PanicAt("println"), "print")
      [] command.value = "quit" ->
           Handled(ledger, Ok(Quit), NoCall("quit"), "none", FALSE)
      [] OTHER ->
           IF input.stdout
           THEN Handled(ledger, Ok(NotSupported), NoCall(command.value),
                        "none", FALSE)
           ELSE Panicked(ledger, PanicAt("println"), command.value)

\* What one iteration of main's loop leaves behind: the log, where main is,
\* and the error it printed (if any).
Looped(log, at, printed) == [tx_log |-> log, pc |-> at, reported |-> printed]

\* Mutant: the confirmed records replace the log instead of extending it.
main_replaces_log(log, h, stdout) ==
    IF h.panicked
    THEN Looped(log, "panicked", None)
    ELSE IF ~h.result.is_ok
    THEN IF stdout
         THEN Looped(log, "loop", Some(h.result.error))
         ELSE Looped(log, "panicked", None)
    ELSE IF h.result.value.kind = "Confirmed"
    THEN Looped(h.result.value.tx, "loop", None)
    ELSE IF h.result.value.kind = "Quit"
    THEN Looped(log, "done", None)
    ELSE Looped(log, "loop", None)

\* main: the match on handle_input's return value in the loop; stdout tells
\* whether the println! of the error can write.
main(log, h, stdout) ==
    IF h.panicked
    THEN Looped(log, "panicked", None)
    ELSE IF ~h.result.is_ok
    THEN IF stdout
         THEN Looped(log, "loop", Some(h.result.error))
         ELSE Looped(log, "panicked", None)
    ELSE IF h.result.value.kind = "Confirmed"
    THEN Looped(log \o h.result.value.tx, "loop", None)
    ELSE IF h.result.value.kind = "Quit"
    THEN Looped(log, "done", None)
    ELSE Looped(log, "loop", None)

\* main is in its loop, and the model still lets it prompt.
Prompting ==
    /\ pc = "loop"
    /\ Len(tx_log) + 2 <= MaxLog

\* One iteration of main's loop on the lines typed at its prompts.
MainLoop(input) ==
    \E h \in {handle_input(accounts, input)} :
        \E l \in {main(tx_log, h, input.stdout)} :
            /\ accounts' = h.accounts
            /\ prev' = accounts
            /\ call' = h.call
            /\ result' = h.result
            /\ path' = h.path
            /\ tx_log' = l.tx_log
            /\ pc' = l.pc
            /\ reported' = l.reported

\* What may happen at one prompt: a line of text is read, the prompt cannot
\* be written, or the line cannot be read.
PromptLine(texts) == {Typed(t) : t \in texts} \cup {PromptFails, ReadFails}

\* What may happen at a prompt that is reached only if the iteration got
\* that far.
After(reached, lines) == IF reached THEN lines ELSE {NotRead}

\* Whether stdout can be written after the prompts, which matters only to an
\* iteration that got past them.
Stdout(reached) == IF reached THEN BOOLEAN ELSE {TRUE}

\* The lines of an iteration on a command that prompts for nothing else.
Line(command, stdout) ==
    [command |-> Typed(command), account |-> NotRead, amount |-> NotRead,
     receiver |-> NotRead, stdout |-> stdout]

\* An iteration whose command prompt cannot be written or answered.
MainUnread ==
    \E command \in {PromptFails, ReadFails} :
        /\ Prompting
        /\ MainLoop([command |-> command, account |-> NotRead,
                     amount |-> NotRead, receiver |-> NotRead,
                     stdout |-> TRUE])

\* An iteration that reads "deposit", then prompts for an account and an
\* amount.
MainDeposit ==
    \E account \in PromptLine(ShellAccount) :
        \E amount \in After(account.io = "ok", PromptLine(AmountText)) :
            \E stdout \in Stdout(amount.io = "ok") :
                /\ Prompting
                /\ MainLoop([command |-> Typed("deposit"), account |-> account,
                             amount |-> amount, receiver |-> NotRead,
                             stdout |-> stdout])

\* An iteration that reads "withdraw", then prompts for an account and an
\* amount.
MainWithdraw ==
    \E account \in PromptLine(ShellAccount) :
        \E amount \in After(account.io = "ok", PromptLine(AmountText)) :
            \E stdout \in Stdout(amount.io = "ok") :
                /\ Prompting
                /\ MainLoop([command |-> Typed("withdraw"), account |-> account,
                             amount |-> amount, receiver |-> NotRead,
                             stdout |-> stdout])

\* An iteration that reads "send", then prompts for a sender, an amount and,
\* if the amount parsed, a receiver.
MainSend ==
    \E sender \in PromptLine(ShellAccount) :
        \E amount \in After(sender.io = "ok", PromptLine(AmountText)) :
            \E receiver \in After(amount.io = "ok" /\ parse(amount.text).is_ok,
                                  PromptLine(ShellAccount)) :
                \E stdout \in Stdout(receiver.io = "ok") :
                    /\ Prompting
                    /\ MainLoop([command |-> Typed("send"), account |-> sender,
                                 amount |-> amount, receiver |-> receiver,
                                 stdout |-> stdout])

\* An iteration that reads "print".
MainPrint ==
    \E stdout \in BOOLEAN :
        /\ Prompting
        /\ MainLoop(Line("print", stdout))

\* An iteration that reads "quit".
MainQuit ==
    /\ Prompting
    /\ MainLoop(Line("quit", TRUE))

\* An iteration that reads anything else.
MainNotSupported ==
    \E stdout \in BOOLEAN :
        /\ Prompting
        /\ MainLoop(Line("help", stdout))

ShellNext ==
    \/ MainUnread
    \/ MainDeposit
    \/ MainWithdraw
    \/ MainSend
    \/ MainPrint
    \/ MainQuit
    \/ MainNotSupported

SpecShell == Init /\ [][ShellNext]_vars

(* ------------------------------- replay ------------------------------- *)

\* Transaction replay (the Tx doc comment): the records applied in sequence
\* to a ledger, Deposit{A, a} as deposit(A, a), Withdraw{A, a} as
\* withdraw(A, a), stopping at the first record that is refused.
RECURSIVE replay(_, _)
replay(m, log) ==
    IF log = <<>>
    THEN [accounts |-> m, is_ok |-> TRUE]
    ELSE LET tx == Head(log)
             o == IF tx.kind = "Deposit"
                  THEN deposit(m, tx.account, tx.amount)
                  ELSE withdraw(m, tx.account, tx.amount) IN
         IF o.result.is_ok
         THEN replay(o.accounts, Tail(log))
         ELSE [accounts |-> o.accounts, is_ok |-> FALSE]

\* The sum of all balances of a ledger.
RECURSIVE SumBalances(_)
SumBalances(m) ==
    IF DOMAIN m = {}
    THEN 0
    ELSE LET k == CHOOSE x \in DOMAIN m : TRUE IN
         m[k] + SumBalances([x \in DOMAIN m \ {k} |-> m[x]])

\* The total amount of the records of one kind in a log.
RECURSIVE Total(_, _)
Total(log, kind) ==
    IF log = <<>>
    THEN 0
    ELSE (IF Head(log).kind = kind THEN Head(log).amount ELSE 0)
         + Total(Tail(log), kind)

(* --------------------------- the last call ---------------------------- *)

\* The last call was deposit(a, n).
IsDeposit == call.op = "deposit"

\* The last call was withdraw(a, n).
IsWithdraw == call.op = "withdraw"

\* The last call was send(s, r, n).
IsSend == call.op = "send"

\* Account k had an entry before the last call.
Existed(k) == k \in DOMAIN prev

\* Account k has an entry now.
Exists(k) == k \in DOMAIN accounts

(* ------------------------------ claims -------------------------------- *)

\* The sender and amount of the last call, when it was a send.
SendPre(s, r, a) ==
    /\ IsSend
    /\ call.sender = s
    /\ call.recipient = r
    /\ call.amount = a

\* The last call was op(k, a) for a single-account operation op.
CallPre(op, k, a) ==
    /\ call.op = op
    /\ call.signer = k
    /\ call.amount = a

\* C1 as stated, for every sender and recipient (the same account included):
\* whenever send(S, R, a) was called with S present holding at least a and R
\* present with balance(R) + a above MAX, it returned OverFunded(R, a) and
\* both balances are what they were.
C1_SendRollbackAnyPair ==
    \A s \in Account, r \in Account, a \in Amount :
        ( /\ SendPre(s, r, a)
          /\ Existed(s) /\ Existed(r)
          /\ prev[s] >= a
          /\ prev[r] + a > MAX )
        => /\ result = Err(OverFunded(r, a))
           /\ Exists(s) /\ accounts[s] = prev[s]
           /\ Exists(r) /\ accounts[r] = prev[r]

\* C1 (amended): for distinct S and R, whenever send(S, R, a) was called with
\* S present holding at least a and R present with balance(R) + a above MAX,
\* it returned OverFunded(R, a), the sender's debit is undone and the
\* recipient is untouched.
C1_SendRollback ==
    \A s \in Account, r \in Account, a \in Amount :
        ( /\ SendPre(s, r, a)
          /\ s # r
          /\ Existed(s) /\ Existed(r)
          /\ prev[s] >= a
          /\ prev[r] + a > MAX )
        => /\ result = Err(OverFunded(r, a))
           /\ Exists(s) /\ accounts[s] = prev[s]
           /\ Exists(r) /\ accounts[r] = prev[r]

\* A send between two distinct funded accounts whose deposit overflowed.
C1_Witness ==
    /\ IsSend
    /\ call.sender # call.recipient
    /\ Existed(call.sender) /\ Existed(call.recipient)
    /\ prev[call.sender] >= call.amount
    /\ prev[call.recipient] + call.amount > MAX
    /\ prev[call.sender] < MAX
    /\ result = Err(OverFunded(call.recipient, call.amount))

\* C2: a call of deposit, withdraw or send that returned an error left the
\* whole account -> balance map, entries included, as it was before the call.
C2_FailureChangesNothing ==
    (call.op \in {"deposit", "withdraw", "send"} /\ ~result.is_ok)
    => /\ DOMAIN accounts = DOMAIN prev
       /\ \A k \in DOMAIN prev : accounts[k] = prev[k]

\* A failed send whose withdraw had succeeded, on a ledger with three entries.
C2_Witness ==
    /\ IsSend
    /\ ~result.is_ok
    /\ result.error.kind = "OverFunded"
    /\ DOMAIN prev = Account
    /\ accounts = prev

\* C3: every balance stored in the ledger is an integer in [0, MAX].
C3_BalanceRange ==
    \A k \in DOMAIN accounts : accounts[k] \in Int /\ 0 <= accounts[k] /\ accounts[k] <= MAX

\* A ledger holding both ends of the range after a refused overflow.
C3_Witness ==
    /\ \E k \in DOMAIN accounts : accounts[k] = MAX
    /\ \E k \in DOMAIN accounts : accounts[k] = 0
    /\ ~result.is_ok
    /\ result.error.kind = "OverFunded"

\* C4: for distinct S and R, with S holding at least a and R present with
\* balance(R) + a <= MAX, send(S, R, a) returned (Withdraw{S,a}, Deposit{R,a})
\* in that order and moved a from S to R.
C4_SendSucceeds ==
    \A s \in Account, r \in Account, a \in Amount :
        ( /\ SendPre(s, r, a)
          /\ s # r
          /\ Existed(s) /\ Existed(r)
          /\ prev[s] >= a
          /\ prev[r] + a <= MAX )
        => /\ result = Ok(<<TxWithdraw(s, a), TxDeposit(r, a)>>)
           /\ Exists(s) /\ accounts[s] = prev[s] - a
           /\ Exists(r) /\ accounts[r] = prev[r] + a

\* A successful send of a positive amount between two existing accounts.
C4_Witness ==
    /\ IsSend
    /\ call.sender # call.recipient
    /\ Existed(call.sender) /\ Existed(call.recipient)
    /\ call.amount > 0
    /\ result.is_ok
    /\ accounts[call.recipient] = prev[call.recipient] + call.amount

\* C5: deposit(A, a) on an existing account with balance(A) + a <= MAX
\* returned Deposit{A, a} and left balance(A) + a.
C5_DepositSucceeds ==
    \A k \in Account, a \in Amount :
        ( /\ CallPre("deposit", k, a)
          /\ Existed(k)
          /\ prev[k] + a <= MAX )
        => /\ result = Ok(TxDeposit(k, a))
           /\ Exists(k) /\ accounts[k] = prev[k] + a

\* A deposit of a positive amount that fills an existing account up to MAX.
C5_Witness ==
    /\ IsDeposit
    /\ Existed(call.signer)
    /\ call.amount > 0
    /\ prev[call.signer] > 0
    /\ prev[call.signer] + call.amount = MAX
    /\ result.is_ok
    /\ accounts[call.signer] = MAX

\* C6: deposit(A, a) on an existing account with balance(A) + a > MAX returned
\* OverFunded(A, a) with the attempted amount and left the balance alone, and
\* a deposit fails in this case only.
C6_DepositOverflow ==
    /\ \A k \in Account, a \in Amount :
           ( /\ CallPre("deposit", k, a)
             /\ Existed(k)
             /\ prev[k] + a > MAX )
           => /\ result = Err(OverFunded(k, a))
              /\ Exists(k) /\ accounts[k] = prev[k]
    /\ (IsDeposit /\ ~result.is_ok)
       => /\ Existed(call.signer)
          /\ prev[call.signer] + call.amount > MAX

\* A refused deposit whose amount differs from the balance and from the sum.
C6_Witness ==
    /\ IsDeposit
    /\ Existed(call.signer)
    /\ prev[call.signer] + call.amount > MAX
    /\ prev[call.signer] # call.amount
    /\ result = Err(OverFunded(call.signer, call.amount))

\* C7: deposit(A, a) on an account with no entry never failed, returned
\* Deposit{A, a} and created the entry with balance exactly a.
C7_DepositCreates ==
    \A k \in Account, a \in Amount :
        ( /\ CallPre("deposit", k, a)
          /\ ~Existed(k) )
        => /\ result = Ok(TxDeposit(k, a))
           /\ Exists(k) /\ accounts[k] = a

\* A deposit of MAX into an account that had no entry.
C7_Witness ==
    /\ IsDeposit
    /\ ~Existed(call.signer)
    /\ call.amount = MAX
    /\ Exists(call.signer)
    /\ accounts[call.signer] = MAX

\* C8: withdraw(A, a) on an existing account with a <= balance(A) returned
\* Withdraw{A, a} and left balance(A) - a, the entry still present.
C8_WithdrawSucceeds ==
    \A k \in Account, a \in Amount :
        ( /\ CallPre("withdraw", k, a)
          /\ Existed(k)
          /\ a <= prev[k] )
        => /\ result = Ok(TxWithdraw(k, a))
           /\ Exists(k) /\ accounts[k] = prev[k] - a

\* A withdraw that drained a funded account to 0 and kept its entry.
C8_Witness ==
    /\ IsWithdraw
    /\ Existed(call.signer)
    /\ call.amount > 0
    /\ call.amount = prev[call.signer]
    /\ result.is_ok
    /\ Exists(call.signer)
    /\ accounts[call.signer] = 0

\* C9: withdraw(A, a) on an existing account with a > balance(A) returned
\* UnderFunded(A, a) with the requested amount and left the balance alone.
C9_WithdrawUnderfunded ==
    \A k \in Account, a \in Amount :
        ( /\ CallPre("withdraw", k, a)
          /\ Existed(k)
          /\ a > prev[k] )
        => /\ result = Err(UnderFunded(k, a))
           /\ Exists(k) /\ accounts[k] = prev[k]

\* A refused withdraw from a funded account.
C9_Witness ==
    /\ IsWithdraw
    /\ Existed(call.signer)
    /\ prev[call.signer] > 0
    /\ call.amount > prev[call.signer]
    /\ result = Err(UnderFunded(call.signer, call.amount))

\* C10: withdraw(A, a) with A absent returned NotFound(A), send(S, R, a) with
\* S absent returned NotFound(S), whatever the amount and the recipient, and
\* neither changed a balance nor created an account.
C10_NotFound ==
    /\ \A k \in Account, a \in Amount :
           (CallPre("withdraw", k, a) /\ ~Existed(k))
           => (result = Err(NotFound(k)) /\ accounts = prev)
    /\ \A s \in Account, r \in Account, a \in Amount :
           (SendPre(s, r, a) /\ ~Existed(s))
           => (result = Err(NotFound(s)) /\ accounts = prev)

\* A send from an absent sender to a recipient that could have taken the
\* amount.
C10_Witness ==
    /\ IsSend
    /\ ~Existed(call.sender)
    /\ Existed(call.recipient)
    /\ call.amount > 0
    /\ prev[call.recipient] + call.amount <= MAX
    /\ result = Err(NotFound(call.sender))
    /\ accounts = prev

\* The accounts whose entry (presence or balance) the last call changed.
Changed ==
    {k \in DOMAIN prev \cup DOMAIN accounts : get(prev, k) # get(accounts, k)}

\* C12 as stated: withdraw(A, a) and send(A, R, a) on a ledger where A is
\* absent give the same result, and the same entries for the other accounts,
\* as on the same ledger with A present at balance 0.
C12_AbsentSameAsZero ==
    /\ \A k \in Account, a \in Amount :
           (CallPre("withdraw", k, a) /\ ~Existed(k))
           => LET t == withdraw(insert(prev, k, 0), k, a) IN
              /\ result = t.result
              /\ \A x \in Account \ {k} : get(accounts, x) = get(t.accounts, x)
    /\ \A k \in Account, r \in Account, a \in Amount :
           (SendPre(k, r, a) /\ ~Existed(k))
           => LET t == send(insert(prev, k, 0), k, r, a) IN
              /\ result = t.result
              /\ \A x \in Account \ {k} : get(accounts, x) = get(t.accounts, x)

\* C12 (amended): with A absent, withdraw(A, a) and send(A, R, a) return
\* NotFound(A) and change nothing; with A present at balance 0 they return
\* UnderFunded(A, a) and change nothing when a > 0, and succeed when a = 0.
C12_AbsentVersusZero ==
    /\ \A k \in Account, a \in Amount :
           (CallPre("withdraw", k, a) /\ ~Existed(k))
           => LET zero == insert(prev, k, 0)
                  t == withdraw(zero, k, a) IN
              /\ result = Err(NotFound(k))
              /\ accounts = prev
              /\ a > 0 => (t.result = Err(UnderFunded(k, a)) /\ t.accounts = zero)
              /\ a = 0 => (t.result = Ok(TxWithdraw(k, 0)) /\ t.accounts = zero)
    /\ \A k \in Account, r \in Account, a \in Amount :
           (SendPre(k, r, a) /\ ~Existed(k))
           => LET zero == insert(prev, k, 0)
                  t == send(zero, k, r, a) IN
              /\ result = Err(NotFound(k))
              /\ accounts = prev
              /\ a > 0 => (t.result = Err(UnderFunded(k, a)) /\ t.accounts = zero)
              /\ a = 0 => /\ t.result = Ok(<<TxWithdraw(k, 0), TxDeposit(r, 0)>>)
                          /\ t.accounts = IF r \in DOMAIN zero
                                           THEN zero
                                           ELSE insert(zero, r, 0)

\* A send of a positive amount from an absent sender to an existing recipient.
C12_Witness ==
    /\ IsSend
    /\ ~Existed(call.sender)
    /\ Existed(call.recipient)
    /\ call.amount > 0
    /\ ~result.is_ok
    /\ send(insert(prev, call.sender, 0), call.sender, call.recipient,
            call.amount).result = Err(UnderFunded(call.sender, call.amount))

\* C13: send(S, R, a) with S present and balance(S) < a returned
\* UnderFunded(S, a) whatever the recipient, changed no entry and created no
\* account; a send reports OverFunded only when the sender held at least a.
C13_SendUnderfunded ==
    /\ \A s \in Account, r \in Account, a \in Amount :
           ( /\ SendPre(s, r, a)
             /\ Existed(s)
             /\ prev[s] < a )
           => /\ result = Err(UnderFunded(s, a))
              /\ accounts = prev
    /\ (IsSend /\ ~result.is_ok /\ result.error.kind = "OverFunded")
       => /\ Existed(call.sender)
          /\ prev[call.sender] >= call.amount

\* An underfunded send to a recipient whose deposit would have overflowed.
C13_Witness ==
    /\ IsSend
    /\ call.sender # call.recipient
    /\ Existed(call.sender) /\ Existed(call.recipient)
    /\ prev[call.sender] < call.amount
    /\ prev[call.recipient] + call.amount > MAX
    /\ result = Err(UnderFunded(call.sender, call.amount))

\* C14: send(S, R, a) with S holding at least a and R (other than S) absent
\* returned (Withdraw{S, a}, Deposit{R, a}), left balance(S) - a and created
\* R with balance a; a send returns NotFound only for an absent sender.
C14_SendCreatesRecipient ==
    /\ \A s \in Account, r \in Account, a \in Amount :
           ( /\ SendPre(s, r, a)
             /\ s # r
             /\ Existed(s)
             /\ prev[s] >= a
             /\ ~Existed(r) )
           => /\ result = Ok(<<TxWithdraw(s, a), TxDeposit(r, a)>>)
              /\ Exists(s) /\ accounts[s] = prev[s] - a
              /\ Exists(r) /\ accounts[r] = a
    /\ (IsSend /\ ~result.is_ok /\ result.error.kind = "NotFound")
       => /\ result.error.account = call.sender
          /\ ~Existed(call.sender)

\* A send of a positive amount that created its recipient.
C14_Witness ==
    /\ IsSend
    /\ call.sender # call.recipient
    /\ Existed(call.sender)
    /\ ~Existed(call.recipient)
    /\ call.amount > 0
    /\ result.is_ok
    /\ Exists(call.recipient)
    /\ accounts[call.recipient] = call.amount

\* C15 as stated: deposit(A, a) and withdraw(A, a) changed no entry other
\* than A's, send(S, R, a) changed no entry other than S's and R's, and every
\* successful deposit or withdraw changed exactly one entry.
C15_FrameExactlyOne ==
    /\ (IsDeposit \/ IsWithdraw) => Changed \subseteq {call.signer}
    /\ IsSend => Changed \subseteq {call.sender, call.recipient}
    /\ ((IsDeposit \/ IsWithdraw) /\ result.is_ok)
       => /\ Exists(call.signer)
          /\ Changed = {call.signer}

\* C15 (amended): deposit(A, a) and withdraw(A, a) changed no entry other
\* than A's, and send(S, R, a) changed no entry other than S's and R's; a
\* successful deposit or withdraw changed exactly the entry of A when a > 0
\* or the entry is new, and changed no entry at all when a = 0 and A was
\* present (the value written is the old one).
C15_Frame ==
    /\ (IsDeposit \/ IsWithdraw) => Changed \subseteq {call.signer}
    /\ IsSend => Changed \subseteq {call.sender, call.recipient}
    /\ ((IsDeposit \/ IsWithdraw) /\ result.is_ok)
       => /\ Exists(call.signer)
          /\ (call.amount > 0 \/ ~Existed(call.signer))
             => Changed = {call.signer}
          /\ (call.amount = 0 /\ Existed(call.signer))
             => /\ Changed = {}
                /\ accounts = prev

\* A successful deposit into one of three existing accounts.
C15_Witness ==
    /\ IsDeposit
    /\ DOMAIN prev = Account
    /\ call.amount > 0
    /\ result.is_ok
    /\ Changed = {call.signer}
    /\ \E k \in Account \ {call.signer} : accounts[k] > 0

\* C18: send(A, A, a) with A holding b >= a returned
\* (Withdraw{A, a}, Deposit{A, a}) and left balance(A) = b; a self-transfer
\* never returns OverFunded and never takes the rollback arm.
C18_SelfTransfer ==
    /\ \A k \in Account, a \in Amount :
           ( /\ SendPre(k, k, a)
             /\ Existed(k)
             /\ a <= prev[k] )
           => /\ result = Ok(<<TxWithdraw(k, a), TxDeposit(k, a)>>)
              /\ Exists(k) /\ accounts[k] = prev[k]
              /\ accounts = prev
    /\ (IsSend /\ call.sender = call.recipient)
       => /\ path # "rollback"
          /\ result.is_ok \/ result.error.kind # "OverFunded"

\* A self-transfer of a positive amount by an account holding MAX.
C18_Witness ==
    /\ IsSend
    /\ call.sender = call.recipient
    /\ Existed(call.sender)
    /\ prev[call.sender] = MAX
    /\ call.amount > 0
    /\ result.is_ok
    /\ accounts[call.sender] = MAX

\* C19: no call removes an entry; a drained account keeps an entry with
\* balance 0; and the set of entries grows only by the signer of a
\* successful deposit or by the recipient of a successful send.
C19_NeverRemoved ==
    [][ /\ DOMAIN accounts \subseteq DOMAIN accounts'
        /\ \A k \in DOMAIN accounts :
               (accounts[k] > 0 /\ accounts'[k] = 0)
               => call'.op \in {"withdraw", "send"} /\ result'.is_ok
        /\ DOMAIN accounts' # DOMAIN accounts
           => \/ /\ call'.op = "deposit"
                 /\ result'.is_ok
                 /\ DOMAIN accounts' = DOMAIN accounts \cup {call'.signer}
              \/ /\ call'.op = "send"
                 /\ result'.is_ok
                 /\ DOMAIN accounts' = DOMAIN accounts \cup {call'.recipient}
      ]_vars

\* A send that drained its sender, who keeps an entry with balance 0.
C19_Witness ==
    /\ IsSend
    /\ call.sender # call.recipient
    /\ result.is_ok
    /\ call.amount > 0
    /\ prev[call.sender] = call.amount
    /\ Exists(call.sender)
    /\ accounts[call.sender] = 0

\* C20: a send returns through one of four arms only: NotFound(sender) from
\* the lookup, UnderFunded(sender, a) from the withdraw, OverFunded(recipient,
\* a) from the deposit with the sender entry present and restored, or Ok; the
\* non-restoring error arm and the unwrap panic are never taken.
C20_SendArms ==
    IsSend =>
        /\ path \in {"not_found", "withdraw_err", "rollback", "ok"}
        /\ path = "not_found" => result = Err(NotFound(call.sender))
        /\ path = "withdraw_err"
           => result = Err(UnderFunded(call.sender, call.amount))
        /\ path = "rollback"
           => /\ result = Err(OverFunded(call.recipient, call.amount))
              /\ Exists(call.sender)
              /\ accounts[call.sender] = prev[call.sender]
        /\ path = "ok"
           => result = Ok(<<TxWithdraw(call.sender, call.amount),
                            TxDeposit(call.recipient, call.amount)>>)

\* A send that returned through the rollback arm.
C20_Witness ==
    /\ IsSend
    /\ path = "rollback"
    /\ ~result.is_ok
    /\ accounts = prev

\* C11: replaying the shell's log on an empty ledger succeeds at every record
\* and yields exactly the live account -> balance map.
C11_ReplayRebuilds ==
    LET r == replay(EmptyMap, tx_log) IN
    /\ r.is_ok
    /\ r.accounts = accounts

\* A log of deposits and a withdrawal, after a send that was rolled back and
\* left no record.
C11_Witness ==
    /\ Len(tx_log) >= 3
    /\ \E i \in 1 .. Len(tx_log) : tx_log[i].kind = "Withdraw"
    /\ \E i \in 1 .. Len(tx_log) : tx_log[i].kind = "Deposit" /\ tx_log[i].amount > 0
    /\ IsSend
    /\ path = "rollback"
    /\ replay(EmptyMap, tx_log).accounts = accounts

\* What every iteration of main's loop does to the log.
LogEffect ==
    /\ Len(tx_log') >= Len(tx_log)
    /\ SubSeq(tx_log', 1, Len(tx_log)) = tx_log
    /\ (call'.op = "deposit" /\ result'.is_ok)
       => tx_log' = Append(tx_log, TxDeposit(call'.signer, call'.amount))
    /\ (call'.op = "withdraw" /\ result'.is_ok)
       => tx_log' = Append(tx_log, TxWithdraw(call'.signer, call'.amount))
    /\ (call'.op = "send" /\ result'.is_ok)
       => tx_log' = tx_log \o <<TxWithdraw(call'.sender, call'.amount),
                                TxDeposit(call'.recipient, call'.amount)>>
    /\ (~result'.is_ok \/ call'.op = "none") => tx_log' = tx_log

\* An iteration that prints the error of a ledger call and goes on, and that
\* ends the loop on quit.
LogStep ==
    /\ LogEffect
    /\ (call'.op # "none" /\ ~result'.is_ok)
       => /\ reported' = Some(result'.error)
          /\ pc' = "loop"
    /\ call' = NoCall("quit") => pc' = "done"

\* The panics that end main's loop: the unwrap of send's amount, the expect
\* of a line that cannot be read, and a println! that cannot write, be it a
\* prompt, the output of print or of an unsupported command (all before any
\* ledger call), or main's report of an error.
LoopPanics ==
    /\ pc' = "panicked"
    /\ reported' = None
    /\ \/ call' = NoCall("send") /\ result' = PanicAt("unwrap")
       \/ call'.op = "none" /\ result' \in {PanicAt("expect"), PanicAt("println")}
       \/ ~result'.is_ok /\ result'.error.kind # "panic"

\* C16 as stated: the log is append-only, grows by one record on a successful
\* deposit or withdraw, by (Withdraw, Deposit) on a successful send and not
\* at all otherwise; a ledger error is printed and the loop goes on; and the
\* loop ends only on quit.
C16_LogAppendOnlyQuitOnly ==
    [][ /\ LogStep
        /\ pc' # "loop" => (call' = NoCall("quit") /\ pc' = "done")
      ]_vars

\* C16 (amended): the same for the log; a ledger error is printed and the
\* loop goes on unless stdout cannot be written; and the loop ends on quit or
\* by a panic: of send's amount that is no u64, of a line that cannot be read
\* from stdin, or of a write to stdout that fails.
C16_LogAppendOnly ==
    [][ /\ LogEffect
        /\ (call'.op # "none" /\ ~result'.is_ok)
           => \/ (reported' = Some(result'.error) /\ pc' = "loop")
              \/ LoopPanics
        /\ call' = NoCall("quit") => pc' = "done"
        /\ pc' # "loop"
           => \/ (call' = NoCall("quit") /\ pc' = "done")
              \/ LoopPanics
      ]_vars

\* A successful send that added its two records to a log that held some.
C16_Witness ==
    /\ IsSend
    /\ result.is_ok
    /\ call.amount > 0
    /\ Len(tx_log) >= 4
    /\ tx_log[Len(tx_log) - 1] = TxWithdraw(call.sender, call.amount)
    /\ tx_log[Len(tx_log)] = TxDeposit(call.recipient, call.amount)
    /\ pc = "loop"

\* C17: a send, successful or not, leaves the sum of all balances as it was,
\* and the sum of all balances is the total of the logged deposits minus the
\* total of the logged withdrawals.
C17_Conservation ==
    /\ IsSend => SumBalances(accounts) = SumBalances(prev)
    /\ SumBalances(accounts)
           = Total(tx_log, "Deposit") - Total(tx_log, "Withdraw")

\* A rolled-back send on a ledger holding more than MAX in total.
C17_Witness ==
    /\ IsSend
    /\ path = "rollback"
    /\ call.amount > 0
    /\ SumBalances(accounts) > MAX
    /\ SumBalances(accounts) = SumBalances(prev)

====
